---- MODULE Spec2Model ----
(***************************************************************************)
(* Model of src/parser_utils.py: the token flatteners, the call-argument   *)
(* splitter, the symbol-aware renderer, the call-like collector, the       *)
(* declaration extractors and the precedence-aware formatter fmt/to_text.  *)
(*                                                                         *)
(* A Python str is a sequence of one-character strings, so that join,      *)
(* replace and strip are computed character by character as Python does.   *)
(* A lark Token is a record of kind "Token" (type, value); a lark Tree is  *)
(* a record of kind "Tree" (data, children).                               *)
(***************************************************************************)
EXTENDS Integers, Sequences, FiniteSets, TLC

VARIABLES
    tree,         \* the Node an entry point is called on (NoneNode: none)
    sol_symbols,  \* the symbol table it is given
    name,         \* _render_call's name
    args,         \* _render_call's args
    declared,     \* the declarations a params node was parsed from
    pc,           \* "start", then the entry point that has returned
    result,       \* what it returned (None when it raised)
    raised,       \* the exception it raised, "" when it returned
    handed        \* the args a top-level function_call render handed to _render_call

vars == <<tree, sol_symbols, name, args, declared, pc, result, raised, handed>>

----------------------------------------------------------------------------
(* Bounds of the input families.                                           *)

\* Longest argument list given to _render_call.
MaxArgs == 3
\* Most children of an exprs node of the call families.
MaxKids == 3
\* Most children of a node of the malformed-shape family.
MaxShapeKids == 3
\* Most parameters of a params node.
MaxParams == 3
\* Most arguments of the outer call of the nested-call family.
MaxCallArgs == 2

----------------------------------------------------------------------------
(* Python values.                                                          *)

\* Python's None: no str (a sequence of one-character strings) equals it.
None == <<"<None>">>

Token(t, v) == [kind |-> "Token", type |-> t, value |-> v, data |-> "", children |-> <<>>]

Tree(d, ch) == [kind |-> "Tree", type |-> "", value |-> <<>>, data |-> d, children |-> ch]

IsToken(n) == n.kind = "Token"

IsTree(n) == n.kind = "Tree"

\* IsTreeOf(n, d): isinstance(n, Tree) and n.data == d
IsTreeOf(n, d) == IsTree(n) /\ n.data = d

\* IsTokenOf(n, t): isinstance(n, Token) and n.type == t
IsTokenOf(n, t) == IsToken(n) /\ n.type = t

----------------------------------------------------------------------------
(* str operations.                                                         *)

RECURSIVE Join(_, _)
\* sep.join(parts)
Join(parts, sep) ==
    IF parts = <<>> THEN <<>>
    ELSE IF Len(parts) = 1 THEN parts[1]
    ELSE parts[1] \o sep \o Join(Tail(parts), sep)

\* s.startswith(pat)
StartsWith(s, pat) == Len(s) >= Len(pat) /\ SubSeq(s, 1, Len(pat)) = pat

RECURSIVE Replace(_, _, _)
\* s.replace(pat, rep), pat non-empty: leftmost non-overlapping occurrences
Replace(s, pat, rep) ==
    IF s = <<>> THEN <<>>
    ELSE IF StartsWith(s, pat) THEN rep \o Replace(SubSeq(s, Len(pat) + 1, Len(s)), pat, rep)
    ELSE <<s[1]>> \o Replace(Tail(s), pat, rep)

IsSpace(c) == c \in {" ", "\t", "\n", "\r"}

RECURSIVE LStrip(_)
LStrip(s) == IF s # <<>> /\ IsSpace(s[1]) THEN LStrip(Tail(s)) ELSE s

RECURSIVE RStrip(_)
RStrip(s) == IF s # <<>> /\ IsSpace(s[Len(s)]) THEN RStrip(SubSeq(s, 1, Len(s) - 1)) ELSE s

\* s.strip()
Strip(s) == RStrip(LStrip(s))

\* .replace(" ,", ",").replace("( ", "(").replace(" )", ")").replace(" .", ".")
Fixups(s) ==
    Replace(Replace(Replace(Replace(s, <<" ", ",">>, <<",">>),
                            <<"(", " ">>, <<"(">>),
                    <<" ", ")">>, <<")">>),
            <<" ", ".">>, <<".">>)

----------------------------------------------------------------------------
(* lark Tree traversals.                                                   *)

RECURSIVE AllTokens(_)
\* Tree.scan_values(lambda v: isinstance(v, Token)): the Tokens under a node,
\* depth first, children left to right.
AllTokens(n) ==
    IF IsToken(n) THEN <<n>>
    ELSE IF n.children = <<>> THEN <<>>
    ELSE AllTokens(n.children[1]) \o AllTokens(Tree(n.data, Tail(n.children)))

\* Tree.scan_values of the Tokens of one type
ScanType(n, t) == SelectSeq(AllTokens(n), LAMBDA k : k.type = t)

\* A slip in the traversal: the node and its child subtrees only, no deeper.
IterSubtreesShallow(n) ==
    IF IsToken(n) THEN <<>> ELSE <<n>> \o SelectSeq(n.children, IsTree)

RECURSIVE iter_subtrees_topdown(_)
\* Tree.iter_subtrees_topdown(): the node, then the subtrees of its children,
\* first child first (the stack pops the children in order); Tokens are skipped.
iter_subtrees_topdown(n) ==
    IF IsToken(n) THEN <<>>
    ELSE LET RECURSIVE Kids(_)
             Kids(ch) == IF ch = <<>> THEN <<>>
                         ELSE iter_subtrees_topdown(ch[1]) \o Kids(Tail(ch))
         IN  <<n>> \o Kids(n.children)

\* The index of the first TRUE of a list of booleans, 0 when there is none.
FirstIndex(flags) ==
    IF \E i \in 1..Len(flags) : flags[i]
    THEN CHOOSE i \in 1..Len(flags) : flags[i] /\ \A j \in 1..(i - 1) : ~flags[j]
    ELSE 0

\* next((ch for ch in children if isinstance(ch, Tree) and ch.data == d), None)
\* as an index, 0 for None
FirstTreeOf(children, d) == FirstIndex([i \in 1..Len(children) |-> IsTreeOf(children[i], d)])

\* next((ch for ch in children if isinstance(ch, Token) and ch.type == t), None)
\* as an index, 0 for None
FirstTokenOf(children, t) == FirstIndex([i \in 1..Len(children) |-> IsTokenOf(children[i], t)])

\* [t.value for t in toks]
Values(toks) == [i \in 1..Len(toks) |-> toks[i].value]

----------------------------------------------------------------------------
(* Token flattener.                                                        *)

_flatten_tokens_only(x) ==
    IF IsToken(x) THEN x.value
    ELSE Strip(Fixups(Join(Values(AllTokens(x)), <<" ">>)))

_flatten_expr(tree_or_tok) ==
    IF IsToken(tree_or_tok) THEN tree_or_tok.value
    ELSE Strip(Fixups(Join(Values(AllTokens(tree_or_tok)), <<" ">>)))

----------------------------------------------------------------------------
(* _render_call                                                            *)

\* sol_symbols.get("state_vars", set())
StateVars(symbols) == symbols.state_vars

\* sol_symbols.get("functions", set())
Functions(symbols) == symbols.functions

\* A slip in _render_call: the indices of a state variable joined by ", ".
RenderCallCommaIndex(nm, as, symbols) ==
    IF nm \in StateVars(symbols)
    THEN IF as = <<>> THEN nm
         ELSE IF Len(as) = 1 THEN nm \o <<"[">> \o as[1] \o <<"]">>
         ELSE nm \o <<"[">> \o Join(as, <<",", " ">>) \o <<"]">>
    ELSE nm \o <<"(">> \o Join(as, <<",", " ">>) \o <<")">>

_render_call(nm, as, symbols) ==
    IF nm \in StateVars(symbols)
    THEN IF as = <<>> THEN nm
         ELSE IF Len(as) = 1 THEN nm \o <<"[">> \o as[1] \o <<"]">>
         ELSE nm \o <<"[">> \o Join(as, <<"]", "[">>) \o <<"]">>
    ELSE nm \o <<"(">> \o Join(as, <<",", " ">>) \o <<")">>

----------------------------------------------------------------------------
(* Call-argument splitter and symbol-aware renderer.                       *)

\* An absent node (Python's None where a Tree or Token is expected).
NoneNode == [kind |-> "None", type |-> "", value |-> <<>>, data |-> "", children |-> <<>>]

\* next((ch for ch in children if isinstance(ch, Tree) and ch.data == "exprs"), None)
ExprsNode(n) ==
    LET i == FirstTreeOf(n.children, "exprs")
    IN  IF i = 0 THEN NoneNode ELSE n.children[i]

\* isinstance(ch, Token) and ch.value == ","
IsComma(ch) == IsToken(ch) /\ ch.value = <<",">>

RECURSIVE CommaRunsFrom(_, _)
CommaRunsFrom(items, cur) ==
    IF items = <<>> THEN (IF cur # <<>> THEN <<cur>> ELSE <<>>)
    ELSE IF IsComma(items[1])
         THEN (IF cur # <<>> THEN <<cur>> ELSE <<>>) \o CommaRunsFrom(Tail(items), <<>>)
         ELSE CommaRunsFrom(Tail(items), Append(cur, items[1]))

\* The loop "for ch in ...: if ch is a ',' Token: close the run cur (when not
\* empty) else: cur.append(ch)", closing the last run: the runs between commas.
CommaRuns(items) == CommaRunsFrom(items, <<>>)

_is_atom_token(tok) ==
    IsToken(tok) /\ tok.type \in {"ID", "INTEGER_LITERAL", "STRING_LITERAL", "TRUE", "FALSE"}

\* The callee of a function_call: the last ID Token before the exprs child.
FuncName(call_tree) ==
    LET children == call_tree.children
        i == FirstTreeOf(children, "exprs")
        cutoff_idx == IF i = 0 THEN Len(children) ELSE i - 1
        ids_before == SelectSeq(SubSeq(children, 1, cutoff_idx),
                                LAMBDA ch : IsTokenOf(ch, "ID"))
    IN  IF ids_before # <<>> THEN ids_before[Len(ids_before)].value ELSE None

\* The empty symbol table {} that _get_function_call_info passes on.
EmptySymbols == [state_vars |-> {}, functions |-> {}]

RECURSIVE _flatten_expr_with_symbols(_, _)
RECURSIVE _flatten_expr_with_symbols_list(_, _)
RECURSIVE _split_call_args(_, _)
RECURSIVE _get_function_call_info(_)
RECURSIVE FlattenCallArgs(_, _)

_flatten_expr_with_symbols_list(nodes, symbols) ==
    LET parts == [i \in 1..Len(nodes) |-> _flatten_expr_with_symbols(nodes[i], symbols)]
    IN  Strip(Fixups(Join(parts, <<" ">>)))

_split_call_args(exprs_node, symbols) ==
    IF exprs_node = NoneNode THEN <<>>
    ELSE IF \E i \in 1..Len(exprs_node.children) : IsTree(exprs_node.children[i])
    THEN <<Strip(_flatten_expr_with_symbols_list(exprs_node.children, symbols))>>
    ELSE LET toks == SelectSeq(exprs_node.children, IsToken)
         IN  IF toks = <<>> THEN <<>>
             ELSE IF \E i \in 1..Len(toks) : toks[i].value = <<",">>
             THEN LET runs == CommaRuns(toks)
                  IN  [i \in 1..Len(runs) |->
                          Strip(_flatten_expr_with_symbols_list(runs[i], symbols))]
             ELSE IF \A i \in 1..Len(toks) : _is_atom_token(toks[i])
             THEN Values(toks)
             ELSE <<Strip(_flatten_expr_with_symbols_list(toks, symbols))>>

_get_function_call_info(call_tree) ==
    [func_name |-> FuncName(call_tree),
     args      |-> _split_call_args(ExprsNode(call_tree), EmptySymbols)]

\* The args list _flatten_expr_with_symbols builds for a function_call and
\* hands to _render_call: one argument per run of exprs children between
\* ',' Tokens.
FlattenCallArgs(call_tree, symbols) ==
    LET exprs_node == ExprsNode(call_tree)
    IN  IF exprs_node = NoneNode THEN <<>>
        ELSE LET runs == CommaRuns(exprs_node.children)
             IN  [i \in 1..Len(runs) |-> _flatten_expr_with_symbols_list(runs[i], symbols)]

\* if name_tok and attr_tok: a Token is a str, false when empty
Truthy(toks) == toks # <<>> /\ toks[1].value # <<>>

_flatten_expr_with_symbols(tree_or_tok, symbols) ==
    IF IsToken(tree_or_tok) THEN tree_or_tok.value
    ELSE IF tree_or_tok.data = "function_call"
    THEN LET fname == _get_function_call_info(tree_or_tok).func_name
         IN  IF fname = None THEN <<>>
             ELSE _render_call(fname, FlattenCallArgs(tree_or_tok, symbols), symbols)
    ELSE IF tree_or_tok.data = "special_var_attribute_call"
    THEN LET ids  == ScanType(tree_or_tok, "ID")
             sums == ScanType(tree_or_tok, "SUM")
         IN  IF Truthy(ids) /\ Truthy(sums)
             THEN ids[1].value \o <<".">> \o sums[1].value
             ELSE _flatten_tokens_only(tree_or_tok)
    ELSE IF tree_or_tok.data = "contract_attribute_call"
    THEN LET i == FirstTreeOf(tree_or_tok.children, "contract_attribute")
             attr == IF i = 0 THEN None ELSE _flatten_tokens_only(tree_or_tok.children[i])
         IN  IF attr # None /\ attr # <<>>
             THEN <<"c", "o", "n", "t", "r", "a", "c", "t", ".">> \o attr
             ELSE <<"c", "o", "n", "t", "r", "a", "c", "t">>
    ELSE LET ch == tree_or_tok.children
             parts == [i \in 1..Len(ch) |-> _flatten_expr_with_symbols(ch[i], symbols)]
         IN  Strip(Fixups(Join(parts, <<" ">>)))

----------------------------------------------------------------------------
(* _collect_call_like_from_expr                                            *)

UpperChars == <<"A", "B", "C", "D", "E", "F", "G", "H", "I", "J", "K", "L", "M",
                "N", "O", "P", "Q", "R", "S", "T", "U", "V", "W", "X", "Y", "Z">>

LowerChars == <<"a", "b", "c", "d", "e", "f", "g", "h", "i", "j", "k", "l", "m",
                "n", "o", "p", "q", "r", "s", "t", "u", "v", "w", "x", "y", "z">>

\* s.lower()
Lower(s) ==
    [i \in 1..Len(s) |->
        IF \E k \in 1..Len(UpperChars) : UpperChars[k] = s[i]
        THEN LowerChars[CHOOSE k \in 1..Len(UpperChars) : UpperChars[k] = s[i]]
        ELSE s[i]]

RECURSIVE Concat(_)
\* The concatenation of a list of lists.
Concat(lists) == IF lists = <<>> THEN <<>> ELSE lists[1] \o Concat(Tail(lists))


\* The subtrees the first loop skips: not a function_call, or "not fname".
SkipsFunctionCall(fc) ==
    \/ ~IsTreeOf(fc, "function_call")
    \/ _get_function_call_info(fc).func_name \in {None, <<>>}

\* First loop body: the descriptor of a function_call.
FunctionCallDescriptor(fc, symbols) ==
    IF SkipsFunctionCall(fc) THEN <<>>
    ELSE LET fname == _get_function_call_info(fc).func_name
             exprs_node == ExprsNode(fc)
             fargs == IF exprs_node = NoneNode THEN <<>>
                      ELSE LET runs == CommaRuns(exprs_node.children)
                           IN  [i \in 1..Len(runs) |->
                                   _flatten_expr_with_symbols_list(runs[i], symbols)]
             decl_kind == IF fname \in StateVars(symbols) THEN "state_var"
                          ELSE IF fname \in Functions(symbols) THEN "function"
                          ELSE "unknown"
         IN  <<[name |-> fname, args |-> fargs, decl_kind |-> decl_kind,
                rendered |-> _render_call(fname, fargs, symbols)]>>

\* Second loop body: the descriptor of a special_var_attribute_call.
SpecialVarDescriptor(sv) ==
    IF ~IsTreeOf(sv, "special_var_attribute_call") THEN <<>>
    ELSE LET ids  == ScanType(sv, "ID")
             sums == ScanType(sv, "SUM")
             nm   == IF Truthy(ids) THEN ids[1].value ELSE None
             attr == IF Truthy(sums) THEN Lower(sums[1].value) ELSE None
         IN  IF nm \in {None, <<>>} THEN <<>>
             ELSE <<[name |-> nm, args |-> <<>>, decl_kind |-> "state_var_attr",
                     attr |-> attr,
                     rendered |-> IF attr \notin {None, <<>>}
                                  THEN nm \o <<".">> \o attr ELSE nm]>>

\* Third loop body: the descriptor of a contract_attribute_call.
ContractAttrDescriptor(ca) ==
    IF ~IsTreeOf(ca, "contract_attribute_call") THEN <<>>
    ELSE LET i == FirstTreeOf(ca.children, "contract_attribute")
             attr == IF i = 0 THEN None ELSE _flatten_tokens_only(ca.children[i])
         IN  <<[name |-> <<"c", "o", "n", "t", "r", "a", "c", "t">>, args |-> <<>>,
                decl_kind |-> "contract_attr", attr |-> attr,
                rendered |-> IF attr \notin {None, <<>>}
                             THEN <<"c", "o", "n", "t", "r", "a", "c", "t", ".">> \o attr
                             ELSE <<"c", "o", "n", "t", "r", "a", "c", "t">>]>>

_collect_call_like_from_expr(expr_node, symbols) ==
    IF expr_node = NoneNode THEN <<>>
    ELSE LET subtrees == iter_subtrees_topdown(expr_node)
             n == Len(subtrees)
         IN  Concat([i \in 1..n |-> FunctionCallDescriptor(subtrees[i], symbols)])
             \o Concat([i \in 1..n |-> SpecialVarDescriptor(subtrees[i])])
             \o Concat([i \in 1..n |-> ContractAttrDescriptor(subtrees[i])])

_is_zero_arg_function_call(t) ==
    IF ~IsTreeOf(t, "function_call") THEN None
    ELSE LET func_name == FuncName(t)
             exprs_node == ExprsNode(t)
         IN  IF func_name \notin {None, <<>>}
                /\ (exprs_node = NoneNode \/ Len(exprs_node.children) = 0)
             THEN func_name ELSE None

----------------------------------------------------------------------------
(* Declaration extractors.                                                 *)

\* _add_param: the record appended for a type node and a name Token, none
\* when the type node is None.
_add_param(type_node, name_tok) ==
    IF type_node = NoneNode THEN <<>>
    ELSE <<[type |-> _flatten_tokens_only(type_node),
            name |-> IF name_tok # NoneNode /\ name_tok.value # <<>>
                     THEN name_tok.value ELSE None]>>

\* A slip in the search for the first parameter's name: the first ID Token
\* anywhere after the type, param subtrees included.
FirstParamNameAnyDepth(children, i, first, seen_type) ==
    LET ids == ScanType(Tree("params", SubSeq(children, first + 1, Len(children))), "ID")
    IN  IF ids = <<>> THEN NoneNode ELSE ids[1]

RECURSIVE FirstParamName(_, _, _, _)
\* The loop over params' children that looks for the first parameter's name:
\* skip up to first_type (children[first]), stop at a param subtree, take the
\* first ID Token after the type.
FirstParamName(children, i, first, seen_type) ==
    IF i > Len(children) THEN NoneNode
    ELSE IF i = first THEN FirstParamName(children, i + 1, first, TRUE)
    ELSE IF IsTreeOf(children[i], "param") THEN NoneNode
    ELSE IF seen_type /\ IsTokenOf(children[i], "ID") THEN children[i]
    ELSE FirstParamName(children, i + 1, first, seen_type)

\* Second loop body: the record of one child of params.
ParamRecord(ch) ==
    IF ~IsTreeOf(ch, "param") THEN <<>>
    ELSE LET t == FirstTreeOf(ch.children, "cvl_type")
             n == FirstTokenOf(ch.children, "ID")
         IN  _add_param(IF t = 0 THEN NoneNode ELSE ch.children[t],
                        IF n = 0 THEN NoneNode ELSE ch.children[n])

_extract_rule_params(params_node) ==
    IF params_node = NoneNode THEN <<>>
    ELSE LET children == params_node.children
             first == FirstTreeOf(children, "cvl_type")
         IN  (IF first # 0
              THEN _add_param(children[first], FirstParamName(children, 1, first, FALSE))
              ELSE <<>>)
             \o Concat([i \in 1..Len(children) |-> ParamRecord(children[i])])

_extract_param_types_from_pattern(pat) ==
    LET p == FirstTreeOf(pat.children, "params")
    IN  IF p = 0 THEN <<>>
        ELSE LET types == SelectSeq(iter_subtrees_topdown(pat.children[p]),
                                    LAMBDA t : t.data = "cvl_type")
             IN  [i \in 1..Len(types) |-> _flatten_tokens_only(types[i])]

----------------------------------------------------------------------------
(* Precedence-aware formatter.                                             *)

BIN_PRECEDENCE ==
    (<<"|", "|">> :> 1) @@ (<<"&", "&">> :> 2) @@ (<<"=", ">">> :> 3) @@ (<<"<", "=", ">">> :> 4)
    @@ (<<"=", "=">> :> 5) @@ (<<"!", "=">> :> 5)
    @@ (<<"<">> :> 6) @@ (<<"<", "=">> :> 6) @@ (<<">">> :> 6) @@ (<<">", "=">> :> 6)
    @@ (<<"+">> :> 7) @@ (<<"-">> :> 7)
    @@ (<<"*">> :> 8) @@ (<<"/">> :> 8) @@ (<<"%">> :> 8)

\* The value the name has when fmt runs: the second assignment.
UNARY_PRECEDENCE == 7

\* fmt's return value (text, precedence), or the exception it raises.
Ret(t, p) == [text |-> t, prec |-> p, exc |-> ""]

Raise(e) == [text |-> <<>>, prec |-> 0, exc |-> e]

Raised(r) == r.exc # ""

\* f"({t})"
Paren(t) == <<"(">> \o t \o <<")">>

\* op_node.children[0].value, or the exception the expression raises: a Token
\* has no children, an empty list no element 0, a Tree no value.
OpValue(op_node) ==
    IF IsToken(op_node) THEN Raise("AttributeError")
    ELSE IF op_node.children = <<>> THEN Raise("IndexError")
    ELSE IF IsTree(op_node.children[1]) THEN Raise("AttributeError")
    ELSE Ret(op_node.children[1].value, 0)

\* The first exception among results, in order, or "".
FirstExc(rs) ==
    IF \E i \in 1..Len(rs) : Raised(rs[i])
    THEN rs[CHOOSE i \in 1..Len(rs) : Raised(rs[i]) /\ \A j \in 1..(i - 1) : ~Raised(rs[j])].exc
    ELSE ""

\* max(mp, p) over the results, from mp = 0
MaxPrec(rs) ==
    IF rs = <<>> THEN 0
    ELSE CHOOSE m \in {rs[i].prec : i \in 1..Len(rs)} \cup {0} :
            \A i \in 1..Len(rs) : rs[i].prec <= m

Texts(rs) == [i \in 1..Len(rs) |-> rs[i].text]

\* Whether the left operand of a binary node is parenthesized: lp < prec.
ParenLeft(lp, prec) == lp < prec

\* Whether the right operand of a logic_bi_expr is parenthesized:
\* rp <= my_prec for "=>", rp < my_prec for every other operator.
ParenRightLogic(op, rp, my_prec) ==
    IF op = <<"=", ">">> THEN rp <= my_prec ELSE rp < my_prec

\* Whether the right operand of a bi_expr or compare_bi_expr is
\* parenthesized: rp < prec.
ParenRight(rp, prec) == rp < prec

\* f"{ltxt} {op} {rtxt}" with the operands parenthesized as decided.
Binary(l, op, r, pl, pr) ==
    (IF pl THEN Paren(l) ELSE l) \o <<" ">> \o op \o <<" ">> \o (IF pr THEN Paren(r) ELSE r)

\* The children of a call that fmt formats as its arguments: the Tree
\* children of its exprs child.
CallArgs(node) ==
    IF ExprsNode(node) = NoneNode THEN <<>>
    ELSE SelectSeq(ExprsNode(node).children, IsTree)

\* The generic call form: ".".join(ID children) + "(" + ", ".join(args) + ")"
\* at precedence 10, rs the fmt results of CallArgs(node).
CallForm(node, rs) ==
    LET id_toks == Values(SelectSeq(node.children, LAMBDA t : IsTokenOf(t, "ID")))
        fname == Join(id_toks, <<".">>)
    IN  IF FirstExc(rs) # "" THEN Raise(FirstExc(rs))
        ELSE Ret(fname \o <<"(">> \o Join(Texts(rs), <<",", " ">>) \o <<")">>, 10)

\* The fallback at the end of fmt: delegate to a sole child, else space-join
\* the children at the maximum of their precedences; rs the fmt results of
\* the children.
Fallback(rs) ==
    IF Len(rs) = 1 THEN rs[1]
    ELSE IF FirstExc(rs) # "" THEN Raise(FirstExc(rs))
    ELSE Ret(Join(Texts(rs), <<" ">>), MaxPrec(rs))

\* The positional shapes of expr / modify_var: ID index, ID attribute,
\* ID index attribute.
IsSuffixShape(ch) ==
    \/ Len(ch) = 2 /\ IsTokenOf(ch[1], "ID") /\ IsTreeOf(ch[2], "index")
    \/ Len(ch) = 2 /\ IsTokenOf(ch[1], "ID") /\ IsTreeOf(ch[2], "attribute")
    \/ Len(ch) = 3 /\ IsTokenOf(ch[1], "ID") /\ IsTreeOf(ch[2], "index")
                   /\ IsTreeOf(ch[3], "attribute")

RECURSIVE fmt(_)
fmt(node) ==
    IF IsToken(node) THEN Ret(node.value, 100)
    ELSE LET ch == node.children
             n  == Len(ch)
             rs == [i \in 1..n |-> fmt(ch[i])]
    IN
    IF node.data = "expr" /\ n >= 4 /\ IsTokenOf(ch[1], "QUANTIFIER")
    THEN LET q == SubSeq(rs, 2, 4)
         IN  IF FirstExc(q) # "" THEN Raise(FirstExc(q))
             ELSE Ret(ch[1].value \o <<" ", "(">> \o rs[2].text \o <<" ">> \o rs[3].text
                      \o <<")", " ">> \o rs[4].text, 100)
    ELSE IF node.data = "unary_expr"
    THEN IF n = 0 THEN Raise("IndexError")
         ELSE IF Raised(OpValue(ch[1])) THEN Raise(OpValue(ch[1]).exc)
         ELSE IF n < 2 THEN Raise("IndexError")
         ELSE IF Raised(rs[2]) THEN rs[2]
         ELSE Ret(OpValue(ch[1]).text
                  \o (IF rs[2].prec < UNARY_PRECEDENCE THEN Paren(rs[2].text) ELSE rs[2].text),
                  UNARY_PRECEDENCE)
    ELSE IF node.data = "special_var_attribute_call"
    THEN IF n < 2 THEN Raise("IndexError")
         ELSE IF Raised(rs[1]) THEN rs[1]
         ELSE IF Raised(OpValue(ch[2])) THEN Raise(OpValue(ch[2]).exc)
         ELSE LET attr == OpValue(ch[2]).text
              IN  IF attr = <<"s", "u", "m">>
                  THEN Ret(<<"_", "_", "v", "e", "r", "i", "f", "i", "e", "r", "_", "s", "u", "m", "_", "u", "i", "n", "t", "(">> \o rs[1].text \o <<")">>, 100)
                  ELSE IF attr = <<"i", "s", "u", "m">>
                  THEN Ret(<<"_", "_", "v", "e", "r", "i", "f", "i", "e", "r", "_", "s", "u", "m", "_", "i", "n", "t", "(">> \o rs[1].text \o <<")">>, 100)
                  ELSE Ret(rs[1].text \o <<".">> \o attr, 100)
    ELSE IF node.data = "contract_attribute_call"
    THEN IF n < 2 THEN Raise("IndexError")
         ELSE LET a == ch[2]
                  attr_val == IF IsTree(a) /\ a.children # <<>> THEN OpValue(a)
                              ELSE IF IsTree(a) THEN Raise("AttributeError")
                              ELSE Ret(a.value, 0)
              IN  IF Raised(attr_val) THEN Raise(attr_val.exc)
                  ELSE IF attr_val.text = <<"a", "d", "d", "r", "e", "s", "s">> THEN Ret(<<"a", "d", "d", "r", "e", "s", "s", "(", "t", "h", "i", "s", ")">>, 100)
                  ELSE IF attr_val.text = <<"b", "a", "l", "a", "n", "c", "e">> THEN Ret(<<"a", "d", "d", "r", "e", "s", "s", "(", "t", "h", "i", "s", ")", ".", "b", "a", "l", "a", "n", "c", "e">>, 100)
                  ELSE IF IsTree(ch[1]) THEN Raise("AttributeError")
                  ELSE Ret(ch[1].value \o <<".">> \o attr_val.text, 100)
    ELSE IF node.data = "function_call"
    THEN CallForm(node, [i \in 1..Len(CallArgs(node)) |-> fmt(CallArgs(node)[i])])
    ELSE IF node.data = "cast_function_expr"
    THEN LET c == FirstTreeOf(ch, "cast_function")
             cast_name == IF c = 0 THEN None ELSE _flatten_tokens_only(ch[c])
             a == FirstTokenOf(ch, "INTEGER_LITERAL")
         IN  IF cast_name \notin {None, <<>>} /\ a # 0
             THEN Ret(cast_name \o <<"(">> \o ch[a].value \o <<")">>, 10)
             ELSE CallForm(node, [i \in 1..Len(CallArgs(node)) |-> fmt(CallArgs(node)[i])])
    ELSE IF node.data = "index"
    THEN IF FirstExc(rs) # "" THEN Raise(FirstExc(rs))
         ELSE Ret(Concat([i \in 1..n |-> <<"[">> \o rs[i].text \o <<"]">>]), 100)
    ELSE IF node.data = "attribute"
    THEN IF FirstExc(rs) # "" THEN Raise(FirstExc(rs))
         ELSE Ret(Concat([i \in 1..n |-> <<".">> \o rs[i].text]), 100)
    ELSE IF node.data = "exprs"
    THEN IF FirstExc(rs) # "" THEN Raise(FirstExc(rs))
         ELSE IF n = 1 THEN Ret(Paren(rs[1].text), 100)
         ELSE Ret(Join(Texts(rs), <<",", " ">>), 100)
    ELSE IF node.data = "logic_bi_expr"
    THEN IF n < 3 THEN Raise("IndexError")
         ELSE IF Raised(OpValue(ch[2])) THEN Raise(OpValue(ch[2]).exc)
         ELSE LET op == OpValue(ch[2]).text
              IN  IF op \notin DOMAIN BIN_PRECEDENCE THEN Raise("KeyError")
                  ELSE IF Raised(rs[1]) THEN rs[1]
                  ELSE IF Raised(rs[3]) THEN rs[3]
                  ELSE LET my_prec == BIN_PRECEDENCE[op]
                       IN  Ret(Binary(rs[1].text, op, rs[3].text,
                                      ParenLeft(rs[1].prec, my_prec),
                                      ParenRightLogic(op, rs[3].prec, my_prec)),
                               my_prec)
    ELSE IF node.data \in {"bi_expr", "compare_bi_expr"}
            /\ n = 3 /\ IsTree(ch[2]) /\ ch[2].data \in {"binop", "compare_binop"}
    THEN IF Raised(OpValue(ch[2])) THEN Raise(OpValue(ch[2]).exc)
         ELSE IF Raised(rs[1]) THEN rs[1]
         ELSE IF Raised(rs[3]) THEN rs[3]
         ELSE LET op == OpValue(ch[2]).text
                  prec == IF op \in DOMAIN BIN_PRECEDENCE THEN BIN_PRECEDENCE[op] ELSE 1
              IN  Ret(Binary(rs[1].text, op, rs[3].text,
                             ParenLeft(rs[1].prec, prec), ParenRight(rs[3].prec, prec)),
                      prec)
    ELSE IF node.data \in {"bi_expr", "compare_bi_expr"}
    THEN IF FirstExc(rs) # "" THEN Raise(FirstExc(rs))
         ELSE Ret(Join(Texts(rs), <<" ">>), MaxPrec(rs))
    ELSE IF node.data \in {"expr", "modify_var"} /\ IsSuffixShape(ch)
    THEN IF FirstExc(rs) # "" THEN Raise(FirstExc(rs))
         ELSE Ret(Concat(Texts(rs)), 100)
    ELSE Fallback(rs)

\* to_text: the text of fmt's pair (fmt's exception passes through).
to_text(expr) == [fmt(expr) EXCEPT !.prec = 0]

----------------------------------------------------------------------------
(* Inputs.                                                                 *)

\* Sequences over S of length lo..hi.
SeqsOf(S, lo, hi) == UNION {[1..k -> S] : k \in lo..hi}

ID(v) == Token("ID", v)

Comma == Token("COMMA", <<",">>)

\* A string literal whose text holds " ,": "x ,y" with its quotes.
StrLit == Token("STRING_LITERAL", <<"\"", "x", " ", ",", "y", "\"">>)

\* Symbol tables over the names m (a mapping), f and g.
Tables ==
    {[state_vars |-> sv, functions |-> fn] :
        sv \in {{}, {<<"m">>}, {<<"m">>, <<"f">>}}, fn \in {{}, {<<"f">>}}}

Names == {<<"m">>, <<"f">>, <<"g">>}

ArgTexts == {<<"a">>, <<"1">>, <<"x", " ", "+", " ", "y">>}

\* A function_call with a qualified callee, g.f(a).
QualifiedCall == Tree("function_call", <<ID(<<"g">>), ID(<<"f">>), Tree("exprs", <<ID(<<"a">>)>>)>>)

\* m.sum
SumCall == Tree("special_var_attribute_call",
                <<ID(<<"m">>), Tree("special_var_attribute", <<Token("SUM", <<"s", "u", "m">>)>>)>>)

\* The children an exprs node of the call family is made of.
ExprsItems ==
    {ID(<<"a">>), ID(<<"b">>), Token("INTEGER_LITERAL", <<"1">>), StrLit, Comma,
     Token("PLUS", <<"+">>), Tree("expr", <<ID(<<"c">>)>>), QualifiedCall}

ExprsNodes == {Tree("exprs", ch) : ch \in SeqsOf(ExprsItems, 0, MaxKids)}

\* exprs nodes, and calls m(...) and f(...) over them.
SymTrees ==
    ExprsNodes
    \cup {Tree("function_call", <<ID(nm), e>>) : nm \in {<<"m">>, <<"f">>}, e \in ExprsNodes}
    \cup {Tree("function_call", <<ID(<<"f">>)>>), Tree("function_call", <<Tree("exprs", <<>>)>>),
          SumCall}

\* The binary node kinds with the label of their operator child.
BinKinds == {"bi_expr", "compare_bi_expr", "logic_bi_expr"}

OpLabel(kind) ==
    CASE kind = "bi_expr" -> "binop"
      [] kind = "compare_bi_expr" -> "compare_binop"
      [] kind = "logic_bi_expr" -> "logic_binop"

BinOps == DOMAIN BIN_PRECEDENCE

\* The binary node l op r.
Bin(kind, l, op, r) == Tree(kind, <<l, Tree(OpLabel(kind), <<Token("OP", op)>>), r>>)

\* a OP1 (b OP2 c) with no exprs wrapper: the right operand is a binary node.
RightNested ==
    {Bin(k1, ID(<<"a">>), op1, Bin(k2, ID(<<"b">>), op2, ID(<<"c">>))) :
        k1 \in BinKinds, op1 \in BinOps, k2 \in BinKinds, op2 \in BinOps}

\* (a OP2 b) OP1 c with no exprs wrapper: the left operand is a binary node.
LeftNested ==
    {Bin(k1, Bin(k2, ID(<<"a">>), op2, ID(<<"b">>)), op1, ID(<<"c">>)) :
        k1 \in BinKinds, op1 \in BinOps, k2 \in BinKinds, op2 \in BinOps}

\* The arguments of the calls given to fmt: Leaves and Interior nodes.
FmtArgItems ==
    {ID(<<"a">>), Token("INTEGER_LITERAL", <<"1">>), Tree("expr", <<ID(<<"b">>)>>),
     Bin("bi_expr", ID(<<"a">>), <<"+">>, ID(<<"b">>))}

RECURSIVE Interleave(_, _)
\* The list with sep between its elements.
Interleave(items, sep) ==
    IF Len(items) <= 1 THEN items
    ELSE <<items[1], sep>> \o Interleave(Tail(items), sep)

\* f(args) and g.f(args), the exprs child holding the arguments with or
\* without ',' Leaves between them.
FmtCalls ==
    {Tree("function_call", ids \o <<Tree("exprs", IF commas THEN Interleave(as, Comma) ELSE as)>>) :
        ids \in {<<ID(<<"f">>)>>, <<ID(<<"g">>), ID(<<"f">>)>>},
        as \in SeqsOf(FmtArgItems, 0, MaxKids),
        commas \in BOOLEAN}

\* The labels fmt and the other entry points recognize.
Vocabulary ==
    {"function_call", "exprs", "params", "param", "cvl_type", "special_var_attribute_call",
     "contract_attribute_call", "contract_attribute", "unary_expr", "logic_bi_expr",
     "bi_expr", "compare_bi_expr", "index", "attribute", "cast_function_expr",
     "cast_function", "expr", "modify_var"}

\* Children of the shape family: an identifier, an operator Leaf, an operator
\* node, an operator node whose text is no key of BIN_PRECEDENCE, a node with
\* no children, a node whose first child is a node.
ShapeKids ==
    {ID(<<"a">>), Token("PLUS", <<"+">>), Tree("binop", <<Token("PLUS", <<"+">>)>>),
     Tree("logic_binop", <<Token("XOR", <<"x", "o", "r">>)>>),
     Tree("contract_attribute", <<>>),
     Tree("exprs", <<Tree("expr", <<ID(<<"b">>)>>)>>)}

\* Every label over every list of up to MaxShapeKids such children.
ShapeTrees == {Tree(d, ch) : d \in Vocabulary, ch \in SeqsOf(ShapeKids, 0, MaxShapeKids)}

\* contract.balance, contract.address and contract.code
ContractCall(attr_type, attr) ==
    Tree("contract_attribute_call",
         <<Token("CONTRACT", <<"c", "o", "n", "t", "r", "a", "c", "t">>), Tree("contract_attribute", <<Token(attr_type, attr)>>)>>)

BalanceCall == ContractCall("BALANCE", <<"b", "a", "l", "a", "n", "c", "e">>)

\* Well-formed samples of the remaining shapes of fmt.
FmtSamples ==
    {Tree("expr", <<Token("QUANTIFIER", <<"f", "o", "r", "a", "l", "l">>), Tree("cvl_type", <<Token("UINT", <<"u", "i", "n", "t">>)>>),
                    ID(<<"i">>), Bin("compare_bi_expr", ID(<<"i">>), <<">", "=">>, ID(<<"a">>))>>),
     Tree("unary_expr", <<Tree("unop", <<Token("MINUS", <<"-">>)>>),
                          Bin("bi_expr", ID(<<"a">>), <<"+">>, ID(<<"b">>))>>),
     Tree("unary_expr", <<Tree("unop", <<Token("NOT", <<"!">>)>>),
                          Bin("logic_bi_expr", ID(<<"a">>), <<"&", "&">>, ID(<<"b">>))>>),
     SumCall,
     Tree("special_var_attribute_call",
          <<ID(<<"m">>), Tree("special_var_attribute", <<Token("SUM", <<"i", "s", "u", "m">>)>>)>>),
     BalanceCall, ContractCall("ADDRESS", <<"a", "d", "d", "r", "e", "s", "s">>), ContractCall("ID", <<"c", "o", "d", "e">>),
     Tree("cast_function_expr", <<Tree("cast_function", <<Token("ADDRESS", <<"a", "d", "d", "r", "e", "s", "s">>)>>),
                                  Token("INTEGER_LITERAL", <<"0">>)>>),
     Tree("expr", <<ID(<<"m">>), Tree("index", <<ID(<<"a">>), ID(<<"b">>)>>)>>),
     Tree("expr", <<ID(<<"m">>), Tree("attribute", <<ID(<<"a">>)>>)>>),
     Tree("modify_var", <<ID(<<"m">>), Tree("index", <<ID(<<"a">>)>>),
                          Tree("attribute", <<ID(<<"b">>)>>)>>),
     Tree("exprs", <<Bin("bi_expr", ID(<<"a">>), <<"+">>, ID(<<"b">>))>>)}

\* The unary prefix operators.
UnaryOps == {<<"-">>, <<"!">>}

\* The unary node op x.
Unary(op, x) == Tree("unary_expr", <<Tree("unop", <<Token("OP", op)>>), x>>)

\* op (a OP b): the operand of the unary node is a binary node.
UnaryOverBinary ==
    {Unary(op, Bin(k, ID(<<"a">>), bop, ID(<<"b">>))) :
        op \in UnaryOps, k \in BinKinds, bop \in BinOps}

\* (op a) OP b: the left operand of the binary node is a unary node.
BinaryOverUnary ==
    {Bin(k, Unary(op, ID(<<"a">>)), bop, ID(<<"b">>)) :
        op \in UnaryOps, k \in BinKinds, bop \in BinOps}

FmtTrees ==
    RightNested \cup LeftNested \cup FmtCalls \cup ShapeTrees \cup FmtSamples
    \cup UnaryOverBinary \cup BinaryOverUnary

\* f(a) and m(a); a function_call with no identifier before its exprs child;
\* an aggregate with no identifier under it.
NamelessCall == Tree("function_call", <<Tree("exprs", <<ID(<<"a">>)>>)>>)

NamelessSum ==
    Tree("special_var_attribute_call",
         <<Tree("special_var_attribute", <<Token("SUM", <<"s", "u", "m">>)>>)>>)

InnerCalls ==
    {Tree("function_call", <<ID(<<"f">>), Tree("exprs", <<ID(<<"a">>)>>)>>),
     NamelessCall, SumCall, NamelessSum, BalanceCall, QualifiedCall}

\* The arguments of the nested-call family: a Leaf, a call-like node, a
\* call-like node inside the arguments of m(...).
CollectItems ==
    {ID(<<"a">>)} \cup InnerCalls
    \cup {Tree("function_call", <<ID(<<"m">>), Tree("exprs", <<x>>)>>) : x \in InnerCalls}

\* Aggregates over m whose attribute Leaf is an upper-case SUM Token, is not
\* a SUM Token, or is missing.
Aggregate(attr) == Tree("special_var_attribute_call", <<ID(<<"m">>)>> \o attr)

Aggregates ==
    {Aggregate(<<Tree("special_var_attribute", <<Token("SUM", <<"S", "U", "M">>)>>)>>),
     Aggregate(<<Tree("special_var_attribute", <<Token("ISUM", <<"i", "s", "u", "m">>)>>)>>),
     Aggregate(<<>>)}

\* An aggregate alone, as the argument of f(...), and as an operand of +.
AggregateTrees ==
    Aggregates
    \cup {Tree("function_call", <<ID(<<"f">>), Tree("exprs", <<x>>)>>) : x \in Aggregates}
    \cup {Bin("bi_expr", ID(<<"a">>), <<"+">>, x) : x \in Aggregates}

\* Calls (named f, named m, nameless) over up to MaxCallArgs such arguments,
\* binary nodes over two of them, and the arguments themselves.
CollectTrees ==
    CollectItems
    \cup {Tree("function_call", ids \o <<Tree("exprs", Interleave(as, Comma))>>) :
            ids \in {<<ID(<<"f">>)>>, <<ID(<<"m">>)>>, <<>>},
            as \in SeqsOf(CollectItems, 0, MaxCallArgs)}
    \cup {Bin("bi_expr", x, <<"+">>, y) : x \in CollectItems, y \in CollectItems}
    \cup AggregateTrees

\* The i-th parameter's own name.
ParamName(i) == <<<<"a">>, <<"b">>, <<"c">>, <<"d">>, <<"e">>>>[i]

\* uint and the user-defined type T, whose token is an ID inside cvl_type.
ParamTypes ==
    {Tree("cvl_type", <<Token("UINT", <<"u", "i", "n", "t">>)>>), Tree("cvl_type", <<ID(<<"T">>)>>)}

\* Declaration lists: a type, whether a data location follows it, whether
\* the parameter is named.
Declarations ==
    SeqsOf([type : ParamTypes, located : BOOLEAN, named : BOOLEAN], 1, MaxParams)

\* cvl_type data_location? ID? of the i-th declaration
ParamChildren(d, i) ==
    <<d.type>>
    \o (IF d.located THEN <<Tree("data_location", <<Token("MEMORY", <<"m", "e", "m", "o", "r", "y">>)>>)>> ELSE <<>>)
    \o (IF d.named THEN <<ID(ParamName(i))>> ELSE <<>>)

\* The params node of a declaration list, as the grammar
\*   params : cvl_type data_location? ID? param*
\*   param  : "," cvl_type data_location? (ID)?
\* shapes it: the first parameter directly under params, each later one in a
\* param subtree.
ParamsNode(decls) ==
    Tree("params",
         ParamChildren(decls[1], 1)
         \o [i \in 1..(Len(decls) - 1) |->
                Tree("param", <<Comma>> \o ParamChildren(decls[i + 1], i + 1))])

----------------------------------------------------------------------------
(* Entry points.                                                           *)

Returns(entry, value) ==
    /\ pc = "start"
    /\ pc' = entry
    /\ result' = value
    /\ raised' = ""
    /\ UNCHANGED <<tree, sol_symbols, name, args, declared>>

\* An entry point that returns value unless exception is raised.
ReturnsOrRaises(entry, value, exception) ==
    /\ pc = "start"
    /\ pc' = entry
    /\ result' = IF exception = "" THEN value ELSE None
    /\ raised' = exception
    /\ UNCHANGED <<tree, sol_symbols, name, args, declared>>

CallRenderCall ==
    /\ Returns("_render_call", _render_call(name, args, sol_symbols))
    /\ handed' = handed

CallSplitCallArgs ==
    /\ Returns("_split_call_args", _split_call_args(tree, sol_symbols))
    /\ handed' = handed

CallGetFunctionCallInfo ==
    /\ Returns("_get_function_call_info", _get_function_call_info(tree))
    /\ handed' = handed

CallIsZeroArgFunctionCall ==
    /\ Returns("_is_zero_arg_function_call", _is_zero_arg_function_call(tree))
    /\ handed' = handed

CallFlattenExpr ==
    /\ Returns("_flatten_expr", _flatten_expr(tree))
    /\ handed' = handed

CallFlattenExprWithSymbols ==
    /\ Returns("_flatten_expr_with_symbols", _flatten_expr_with_symbols(tree, sol_symbols))
    /\ handed' = IF IsTreeOf(tree, "function_call") /\ FuncName(tree) # None
                 THEN FlattenCallArgs(tree, sol_symbols) ELSE handed

\* _render_call on a name, an argument list and a symbol table.
InitRender ==
    /\ name \in Names
    /\ args \in SeqsOf(ArgTexts, 0, MaxArgs)
    /\ sol_symbols \in Tables
    /\ tree = NoneNode
    /\ declared = <<>>
    /\ pc = "start"
    /\ result = None
    /\ raised = ""
    /\ handed = <<>>

NextRender == CallRenderCall

SpecRender == InitRender /\ [][NextRender]_vars

\* The splitter, the flatteners and the symbol-aware renderer on an exprs
\* node or a call.
InitSym ==
    /\ tree \in SymTrees
    /\ sol_symbols \in Tables
    /\ name = <<>>
    /\ args = <<>>
    /\ declared = <<>>
    /\ pc = "start"
    /\ result = None
    /\ raised = ""
    /\ handed = <<>>

NextSym ==
    \/ CallSplitCallArgs
    \/ CallGetFunctionCallInfo
    \/ CallIsZeroArgFunctionCall
    \/ CallFlattenExpr
    \/ CallFlattenExprWithSymbols

SpecSym == InitSym /\ [][NextSym]_vars

CallFmt ==
    /\ ReturnsOrRaises("fmt", <<fmt(tree).text, fmt(tree).prec>>, fmt(tree).exc)
    /\ handed' = handed

CallToText ==
    /\ ReturnsOrRaises("to_text", to_text(tree).text, to_text(tree).exc)
    /\ handed' = handed

CallCollectCallLike ==
    /\ Returns("_collect_call_like_from_expr", _collect_call_like_from_expr(tree, sol_symbols))
    /\ handed' = handed

CallExtractRuleParams ==
    /\ Returns("_extract_rule_params", _extract_rule_params(tree))
    /\ handed' = handed

CallExtractParamTypes ==
    /\ Returns("_extract_param_types_from_pattern", _extract_param_types_from_pattern(tree))
    /\ handed' = handed

\* fmt and to_text on an expression tree.
InitFmt ==
    /\ tree \in FmtTrees
    /\ sol_symbols = EmptySymbols
    /\ name = <<>>
    /\ args = <<>>
    /\ declared = <<>>
    /\ pc = "start"
    /\ result = None
    /\ raised = ""
    /\ handed = <<>>

NextFmt == CallFmt \/ CallToText

SpecFmt == InitFmt /\ [][NextFmt]_vars

\* The call-like collector and the symbol-aware renderer on nested calls.
InitCollect ==
    /\ tree \in CollectTrees
    /\ sol_symbols \in Tables
    /\ name = <<>>
    /\ args = <<>>
    /\ declared = <<>>
    /\ pc = "start"
    /\ result = None
    /\ raised = ""
    /\ handed = <<>>

NextCollect == CallCollectCallLike \/ CallFlattenExprWithSymbols

SpecCollect == InitCollect /\ [][NextCollect]_vars

\* The declaration extractors on a params node, or on a pattern holding it.
InitParams ==
    /\ declared \in Declarations
    /\ tree \in {ParamsNode(declared),
                 Tree("exact_pattern", <<ID(<<"f">>), ParamsNode(declared)>>)}
    /\ sol_symbols = EmptySymbols
    /\ name = <<>>
    /\ args = <<>>
    /\ pc = "start"
    /\ result = None
    /\ raised = ""
    /\ handed = <<>>

NextParams == CallExtractRuleParams \/ CallExtractParamTypes

SpecParams == InitParams /\ [][NextParams]_vars

\* Every entry point on every input.
Init == InitRender \/ InitSym \/ InitFmt \/ InitCollect \/ InitParams

Next == NextRender \/ NextSym \/ NextFmt \/ NextCollect \/ NextParams

Spec == Init /\ [][Next]_vars

----------------------------------------------------------------------------
(* Claims.                                                                 *)

\* The text fmt or to_text returned.
ReturnedText == IF pc = "fmt" THEN result[1] ELSE result

\* The operator of a binary node.
OpOf(n) == n.children[2].children[1].value

\* b OP2 c, the text of the right operand of a RightNested tree.
InnerText(n) == <<"b", " ">> \o OpOf(n.children[3]) \o <<" ", "c">>

\* C1: fmt/to_text of a binary node a OP1 (b OP2 c) whose right operand is
\* directly a binary node leaves b OP2 c without parentheses when OP2 binds
\* strictly tighter than OP1, and puts it in parentheses when OP2 binds the
\* same or looser.
C1_RightOperandParens ==
    (pc \in {"fmt", "to_text"} /\ tree \in RightNested) =>
        /\ raised = ""
        /\ ReturnedText =
              <<"a", " ">> \o OpOf(tree) \o <<" ">>
              \o (IF BIN_PRECEDENCE[OpOf(tree.children[3])] > BIN_PRECEDENCE[OpOf(tree)]
                  THEN InnerText(tree) ELSE Paren(InnerText(tree)))

Implies(l, r) == Bin("logic_bi_expr", l, <<"=", ">">>, r)

\* a => (b => c) and (a => b) => c as trees.
ImpliesRight == Implies(ID(<<"a">>), Implies(ID(<<"b">>), ID(<<"c">>)))

ImpliesLeft == Implies(Implies(ID(<<"a">>), ID(<<"b">>)), ID(<<"c">>))

\* C2: to_text of the implication whose right operand is an implication is
\* "a => b => c" (no parentheses), to_text of the implication whose left
\* operand is an implication is "(a => b) => c", and the two texts differ.
C2_ImplicationGrouping ==
    pc = "to_text" =>
        /\ tree = ImpliesRight => result = <<"a", " ", "=", ">", " ", "b", " ", "=", ">", " ", "c">>
        /\ tree = ImpliesLeft => result = <<"(", "a", " ", "=", ">", " ", "b", ")", " ", "=", ">", " ", "c">>
        /\ to_text(ImpliesRight).text # to_text(ImpliesLeft).text

\* name[a1][a2]...[an]
Indexed(nm, as) == nm \o Concat([i \in 1..Len(as) |-> <<"[">> \o as[i] \o <<"]">>])

\* name(a1, a2, ..., an)
Applied(nm, as) ==
    nm \o <<"(">>
    \o Concat([i \in 1..Len(as) |-> (IF i = 1 THEN <<>> ELSE <<",", " ">>) \o as[i]])
    \o <<")">>

\* C3: _render_call returns name for a state variable with no arguments,
\* name[a1]...[an] for a state variable with n >= 1 arguments, and
\* name(a1, ..., an) in every other case, also for a name in neither set.
C3_RenderCallForms ==
    pc = "_render_call" =>
        result = IF name \in sol_symbols.state_vars
                 THEN (IF Len(args) = 0 THEN name ELSE Indexed(name, args))
                 ELSE Applied(name, args)

\* A state variable rendered with two or more indices.
C3_Witness ==
    /\ pc = "_render_call"
    /\ name \in sol_symbols.state_vars
    /\ Len(args) >= 2
    /\ result = Indexed(name, args)

\* The token texts under n are texts the cosmetic fixups leave unchanged.
PlainTokens(n) ==
    \A i \in 1..Len(AllTokens(n)) : Fixups(AllTokens(n)[i].value) = AllTokens(n)[i].value

\* C4: the argument list the symbol-aware renderer hands to _render_call for
\* a function_call equals what _split_call_args returns for the call's exprs
\* child under the same symbol table (stated for calls whose token texts the
\* fixups leave unchanged, so that the lists differ only by how the
\* arguments are delimited).
C4_HandedArgsAreSplitterArgs ==
    (pc = "_flatten_expr_with_symbols" /\ IsTreeOf(tree, "function_call")
        /\ FuncName(tree) # None /\ PlainTokens(tree)) =>
        handed = _split_call_args(ExprsNode(tree), sol_symbols)

\* The least index at which pat occurs in s, 0 when it does not.
Find(s, pat) ==
    LET at == {i \in 1..(Len(s) - Len(pat) + 1) : SubSeq(s, i, i + Len(pat) - 1) = pat}
    IN  IF at = {} THEN 0 ELSE CHOOSE i \in at : \A j \in at : i <= j

RECURSIVE Embeds(_, _)
\* The texts occur in s one after the other, without overlap.
Embeds(texts, s) ==
    IF texts = <<>> THEN TRUE
    ELSE LET i == Find(s, texts[1])
         IN  i # 0 /\ Embeds(Tail(texts), SubSeq(s, i + Len(texts[1]), Len(s)))

RECURSIVE Covers(_, _)
\* The texts split into consecutive groups, one per argument, the i-th group
\* occurring in the i-th argument in order.
Covers(texts, as) ==
    IF as = <<>> THEN texts = <<>>
    ELSE \E k \in 0..Len(texts) :
            /\ Embeds(SubSeq(texts, 1, k), as[1])
            /\ Covers(SubSeq(texts, k + 1, Len(texts)), Tail(as))

\* C5: the list _split_call_args returns for an exprs node covers its
\* Leaves: the text of every Leaf under exprs (the ',' separators aside)
\* occurs in one returned argument, in tree order, none dropped.
C5_LeafCoverage ==
    (pc = "_split_call_args" /\ IsTreeOf(tree, "exprs")) =>
        Covers(Values(SelectSeq(AllTokens(tree), LAMBDA t : ~IsComma(t))), result)

\* The atomic Tokens among the children of an exprs node.
Atoms(n) == SelectSeq(n.children, _is_atom_token)

\* C6: for an exprs node of n >= 1 atomic Tokens separated by single ','
\* Leaves, _split_call_args returns the n token texts, and returns the same
\* for the same Tokens with no ',' Leaves.
C6_AtomicArguments ==
    (pc = "_split_call_args" /\ IsTreeOf(tree, "exprs") /\ Atoms(tree) # <<>>
        /\ tree.children = Interleave(Atoms(tree), Comma)) =>
        /\ result = Values(Atoms(tree))
        /\ _split_call_args(Tree("exprs", Atoms(tree)), sol_symbols) = result

\* The arguments an exprs node holds: its children, the ',' Leaves aside.
HeldArgs(exprs_node) == SelectSeq(exprs_node.children, LAMBDA ch : ~IsComma(ch))

\* C7: fmt of a function_call whose exprs child holds n arguments, Leaves or
\* Interior nodes, is <dotted-name>(<arg1>, ..., <argn>) with each argument's
\* fmt text in order, none omitted.
C7_CallKeepsEveryArgument ==
    (pc \in {"fmt", "to_text"} /\ tree \in FmtCalls) =>
        /\ raised = ""
        /\ ReturnedText =
              Applied(Join(Values(SelectSeq(tree.children, LAMBDA t : IsTokenOf(t, "ID"))),
                           <<".">>),
                      [i \in 1..Len(HeldArgs(ExprsNode(tree))) |->
                          fmt(HeldArgs(ExprsNode(tree))[i]).text])

\* C8: fmt/to_text of a tree of the recognized labels with any children ends
\* with a (text, precedence) result and raises nothing.
C8_FmtNeverRaises ==
    (pc \in {"fmt", "to_text"} /\ tree \in ShapeTrees) => raised = ""

RECURSIVE SumOf(_)
SumOf(ns) == IF ns = <<>> THEN 0 ELSE ns[1] + SumOf(Tail(ns))

\* A function_call with an identifier Leaf before its exprs child.
HasCallee(n) ==
    \E i \in 1..Len(n.children) :
        /\ IsTokenOf(n.children[i], "ID")
        /\ \A j \in 1..i : ~IsTreeOf(n.children[j], "exprs")

\* An identifier Leaf at any depth under n.
HasIdentifier(n) == \E i \in 1..Len(AllTokens(n)) : AllTokens(n)[i].type = "ID"

RECURSIVE CountCalls(_, _, _)
\* The subtrees of n labelled d, n included; with named, those with an
\* identifiable name only.
CountCalls(n, d, named) ==
    IF IsToken(n) THEN 0
    ELSE (IF n.data = d
             /\ (named => CASE d = "function_call" -> HasCallee(n)
                            [] d = "special_var_attribute_call" -> HasIdentifier(n)
                            [] OTHER -> TRUE)
          THEN 1 ELSE 0)
         + SumOf([i \in 1..Len(n.children) |-> CountCalls(n.children[i], d, named)])

\* The descriptors of the given kinds.
OfKinds(descriptors, kinds) == SelectSeq(descriptors, LAMBDA c : c.decl_kind \in kinds)

\* C9 as claimed: _collect_call_like_from_expr returns one descriptor per
\* function_call, special_var_attribute_call and contract_attribute_call
\* subtree of the tree, at any depth, none skipped.
C9_OneDescriptorPerCallLike ==
    pc = "_collect_call_like_from_expr" =>
        Len(result) = CountCalls(tree, "function_call", FALSE)
                      + CountCalls(tree, "special_var_attribute_call", FALSE)
                      + CountCalls(tree, "contract_attribute_call", FALSE)

\* C9 as amended: _collect_call_like_from_expr returns one descriptor per
\* function_call subtree with an identifier Leaf before its exprs child, per
\* special_var_attribute_call subtree with an identifier Leaf under it, and
\* per contract_attribute_call subtree, at any depth; a call-like subtree
\* with no such identifier gets none.
C9_OneDescriptorPerNamedCallLike ==
    pc = "_collect_call_like_from_expr" =>
        /\ Len(OfKinds(result, {"state_var", "function", "unknown"}))
              = CountCalls(tree, "function_call", TRUE)
        /\ Len(OfKinds(result, {"state_var_attr"}))
              = CountCalls(tree, "special_var_attribute_call", TRUE)
        /\ Len(OfKinds(result, {"contract_attr"}))
              = CountCalls(tree, "contract_attribute_call", TRUE)
        /\ Len(result) = CountCalls(tree, "function_call", TRUE)
                         + CountCalls(tree, "special_var_attribute_call", TRUE)
                         + CountCalls(tree, "contract_attribute_call", TRUE)

\* A call whose argument is a call holding a call-like node in its own
\* arguments: three levels, each with its descriptor.
C9_Witness ==
    /\ pc = "_collect_call_like_from_expr"
    /\ IsTreeOf(tree, "function_call")
    /\ HasCallee(tree)
    /\ \E x \in InnerCalls :
          /\ ExprsNode(tree).children
                = <<Tree("function_call", <<ID(<<"m">>), Tree("exprs", <<x>>)>>)>>
          /\ HasIdentifier(x)
    /\ Len(result) >= 3

\* The record of the i-th declaration.
DeclaredRecord(d, i) ==
    [type |-> d.type.children[1].value, name |-> IF d.named THEN ParamName(i) ELSE None]

\* C10: for a params node declaring k >= 1 parameters, _extract_rule_params
\* returns k records in declaration order, the i-th with the i-th type and
\* the i-th parameter's own name, None when that parameter has no identifier.
C10_RuleParamsInOrder ==
    (pc = "_extract_rule_params" /\ tree = ParamsNode(declared)) =>
        result = [i \in 1..Len(declared) |-> DeclaredRecord(declared[i], i)]

\* An unnamed first parameter followed by a named one: the first record has
\* no name, the second its own.
C10_Witness ==
    /\ pc = "_extract_rule_params"
    /\ tree = ParamsNode(declared)
    /\ Len(declared) >= 2
    /\ ~declared[1].named
    /\ declared[2].named
    /\ result[1].name = None
    /\ result[2].name = ParamName(2)

\* The unary operator of a unary node.
UnaryOpOf(n) == n.children[1].children[1].value

\* (op a) OP b, the binary node a UnaryOverBinary tree op (a OP b) must stay
\* distinguishable from.
Regrouped(n) ==
    LET b == n.children[2]
    IN  Tree(b.data, <<Unary(UnaryOpOf(n), b.children[1]), b.children[2], b.children[3]>>)

\* C11: with UNARY_PRECEDENCE as it is when fmt runs, fmt/to_text of
\* unary(op, binary(a OP b)) is "op(a OP b)" for every unary operator and
\* every OP of BIN_PRECEDENCE, and so differs from the text of
\* binary(unary(op, a) OP b).
C11_UnaryOperandParens ==
    (pc \in {"fmt", "to_text"} /\ tree \in UnaryOverBinary) =>
        /\ raised = ""
        /\ ReturnedText =
              UnaryOpOf(tree)
              \o Paren(<<"a", " ">> \o OpOf(tree.children[2]) \o <<" ", "b">>)
        /\ ReturnedText # to_text(Regrouped(tree)).text

\* The call-like subtrees of n that get a descriptor, in the order of the
\* three loops: function_calls with a callee, aggregates with a name,
\* contract attribute calls.
CallLikes(n) ==
    LET subtrees == iter_subtrees_topdown(n)
    IN  SelectSeq(subtrees, LAMBDA s : s.data = "function_call" /\ HasCallee(s))
        \o SelectSeq(subtrees,
                     LAMBDA s : s.data = "special_var_attribute_call" /\ HasIdentifier(s))
        \o SelectSeq(subtrees, LAMBDA s : s.data = "contract_attribute_call")

\* C12: for every call-like subtree (function_call with a callee,
\* special_var_attribute_call, contract_attribute_call) and every symbol
\* table, the 'rendered' field of the descriptor _collect_call_like_from_expr
\* produces for it equals the text _flatten_expr_with_symbols returns for the
\* same subtree and table, also when the aggregate has no SUM Token or its
\* attribute text is not lower-case.
C12_RenderedIsFlattenedText ==
    (pc = "_collect_call_like_from_expr" /\ IsTree(tree)) =>
        LET subtrees == CallLikes(tree)
        IN  \A i \in 1..Len(result) :
                i <= Len(subtrees) =>
                    result[i].rendered = _flatten_expr_with_symbols(subtrees[i], sol_symbols)


====
